---- MODULE Spec2Model ----
(***************************************************************************)
(* A model of the Ray_tracer sources: vec3.h, ray.h, hitable.h,            *)
(* material.h, camera.h and main.cpp.                                      *)
(*                                                                         *)
(* Numbers.  A C++ float is modelled as a fixed-point number: the integer  *)
(* x stands for the real x / Scale, and every product, quotient and square *)
(* root is rounded to the nearest representable value, as float arithmetic *)
(* rounds.  NaN stands for the float NaN (0/0, sqrt of a negative): it     *)
(* propagates through arithmetic and every comparison with it is false.    *)
(*                                                                         *)
(* Specifications.                                                         *)
(*   SpecHit     hitable_list::hit and sphere::hit on drawn inputs         *)
(*   SpecColor   the recursion of color() over drawn scenes and rays       *)
(*   SpecRandom  the random_float calls of the program, in program order   *)
(*   SpecRender  main(): the pixel loops, the sample loop, the output file *)
(*   SpecParallel  one parallel sample loop, step by step in each thread   *)
(*   SpecColorFair  SpecColor with the fairness of a running program       *)
(***************************************************************************)
EXTENDS Integers, Sequences, FiniteSets, TLC

VARIABLES
    \* hitable_list::hit (hitable.h:59-73)
    r,               \* the ray argument
    t_min,           \* the t_min argument
    t_max,           \* the t_max argument
    objects,         \* hitable_list::objects
    idx,             \* position of the range-for loop in objects
    temp_rec,        \* local hit_record temp_rec
    hit_anything,    \* local bool hit_anything
    closest_so_far,  \* local double closest_so_far
    rec,             \* the caller's record (reference parameter)
    last_call,       \* arguments and result of the latest object->hit call
    hpc,             \* "idle" | "loop" | "done"
    \* random_float (vec3.h:162-166)
    distribution,    \* static std::uniform_real_distribution<float>
    gen_users,       \* the threads inside distribution(generator)
    rand_users,      \* the threads inside rand()
    rf_calls,        \* the random_float calls of the latest step: <<min, max, value>>
    \* color (main.cpp:69-96)
    world,           \* the scene
    color_r,         \* argument r of the active call
    depth,           \* argument depth of the active call
    color_rec,       \* local hit_record rec of the active call
    stack,           \* the suspended calls, outermost first
    retval,          \* the value returned by the latest return
    ending,          \* how the path ended: "none" | "cutoff" | "miss" | "absorbed"
    path,            \* the attenuations of the bounces of the path, first bounce first
    terminal,        \* the value returned by the innermost call of the path
    hit_queries,     \* number of world.hit calls made so far
    scatter_calls,   \* number of material scatter calls made so far
    last_scatter,    \* arguments and result of the latest dielectric scatter
    cpc,             \* "idle" | "call" | "sample" | "ret"
    \* randomScene (main.cpp:13-60)
    scene_a,         \* loop variable a
    scene_b,         \* loop variable b
    choose_mat,      \* local float choose_mat
    center,          \* local vec3 center
    rpc,             \* "choose_mat" | "center" | "skip_test" | "render"
    \* main (main.cpp:98-183)
    pixel_j,         \* loop variable j (scanline)
    pixel_i,         \* loop variable i (column)
    col,             \* vec3 col of the pixel
    priv,            \* the threads' private copies of col (reduction(+:col))
    todo,            \* the iterations s of the sample loop not yet started
    combined,        \* the threads whose private copy has been added to col
    wpc,             \* where each thread is inside its iteration
    draws,           \* random draws made so far by each thread's color() call
    iter_s,          \* the iteration s each thread is running, -1 between iterations
    samples,         \* the finished iterations of the pixel: [s, w, c], c the colour
                     \* color() returned to thread w in iteration s
    header_written,  \* the header "P3 nx ny 255" is in the file
    out_pixels,      \* the pixels <<i, j>> whose line is in the file, in file order
    last_line,       \* the three integers of the latest line of the file
    mpc              \* "idle" | "start" | "pixel" | "parallel" | "average" | "close" | "closed"

hitVars == <<r, t_min, t_max, objects, idx, temp_rec, hit_anything,
             closest_so_far, rec, last_call, hpc>>

rngVars == <<distribution, gen_users, rand_users, rf_calls>>

colorVars == <<world, color_r, depth, color_rec, stack, retval, ending, path, terminal,
               hit_queries, scatter_calls, last_scatter, cpc>>

sceneVars == <<scene_a, scene_b, choose_mat, center, rpc>>

renderVars == <<pixel_j, pixel_i, col, priv, todo, combined, wpc, draws, iter_s, samples,
                header_written,
                out_pixels, last_line, mpc>>

vars == <<hitVars, rngVars, colorVars, sceneVars, renderVars>>

-----------------------------------------------------------------------------
(* float arithmetic (vec3.h uses float throughout)                          *)

Scale == 1000

NaN == -2000000000

FLT_MAX == 2000000000

Abs(x) == IF x < 0 THEN -x ELSE x

Sign(x) == IF x < 0 THEN -1 ELSE 1

\* x / y on integers, rounded to the nearest integer (y # 0)
RoundDiv(x, y) == Sign(x) * Sign(y) * ((2 * Abs(x) + Abs(y)) \div (2 * Abs(y)))

IsNaN(x) == x = NaN

FAdd(x, y) == IF IsNaN(x) \/ IsNaN(y) THEN NaN ELSE x + y

FSub(x, y) == IF IsNaN(x) \/ IsNaN(y) THEN NaN ELSE x - y

FNeg(x) == IF IsNaN(x) THEN NaN ELSE -x

FMul(x, y) == IF IsNaN(x) \/ IsNaN(y) THEN NaN ELSE RoundDiv(x * y, Scale)

\* x / 0 is inf or NaN in float; the model does not tell them apart
FDiv(x, y) == IF IsNaN(x) \/ IsNaN(y) \/ y = 0 THEN NaN ELSE RoundDiv(x * Scale, y)

\* comparisons: false as soon as one side is NaN
FLt(x, y) == ~IsNaN(x) /\ ~IsNaN(y) /\ x < y

FGt(x, y) == ~IsNaN(x) /\ ~IsNaN(y) /\ x > y

FGe(x, y) == ~IsNaN(x) /\ ~IsNaN(y) /\ x >= y

RECURSIVE ISqrtIter(_, _, _)
\* the largest k in lo..hi with k*k <= n, by bisection
ISqrtIter(n, lo, hi) ==
    IF lo >= hi THEN lo
    ELSE LET mid == (lo + hi + 1) \div 2
         IN  IF mid * mid <= n THEN ISqrtIter(n, mid, hi)
                               ELSE ISqrtIter(n, lo, mid - 1)

ISqrt(n) == ISqrtIter(n, 0, 46340)

\* std::sqrt on a float, rounded to nearest
FSqrt(x) ==
    IF IsNaN(x) \/ x < 0 THEN NaN
    ELSE LET n == x * Scale
             k == ISqrt(n)
         IN  IF n - k * k > k THEN k + 1 ELSE k

-----------------------------------------------------------------------------
(* vec3 (vec3.h) and ray (ray.h)                                            *)

vec3(e0, e1, e2) == <<e0, e1, e2>>

Real(n) == n * Scale

VAdd(v1, v2) == <<FAdd(v1[1], v2[1]), FAdd(v1[2], v2[2]), FAdd(v1[3], v2[3])>>

VSub(v1, v2) == <<FSub(v1[1], v2[1]), FSub(v1[2], v2[2]), FSub(v1[3], v2[3])>>

VNeg(v) == <<FNeg(v[1]), FNeg(v[2]), FNeg(v[3])>>

VMulV(v1, v2) == <<FMul(v1[1], v2[1]), FMul(v1[2], v2[2]), FMul(v1[3], v2[3])>>

VScale(v, t) == <<FMul(v[1], t), FMul(v[2], t), FMul(v[3], t)>>

VDivS(v, t) == <<FDiv(v[1], t), FDiv(v[2], t), FDiv(v[3], t)>>

dot(v1, v2) == FAdd(FAdd(FMul(v1[1], v2[1]), FMul(v1[2], v2[2])), FMul(v1[3], v2[3]))

squared_length(v) == dot(v, v)

length(v) == FSqrt(squared_length(v))

unit_vector(v) == VDivS(v, length(v))

ray(origin, direction) == [orig |-> origin, dir |-> direction]

at(ry, t) == VAdd(ry.orig, VScale(ry.dir, t))

-----------------------------------------------------------------------------
(* materials (material.h) and primitives (hitable.h)                        *)

\* a shared_ptr<material>: id is the identity of the pointed-to object
lambertian(i, a) == [id |-> i, kind |-> "lambertian", albedo |-> a, ref_idx |-> 0]

metal(i, a) == [id |-> i, kind |-> "metal", albedo |-> a, ref_idx |-> 0]

dielectric(i, ri) == [id |-> i, kind |-> "dielectric", albedo |-> <<0, 0, 0>>, ref_idx |-> ri]

\* a default-constructed shared_ptr
NullMat == [id |-> "null", kind |-> "null", albedo |-> <<0, 0, 0>>, ref_idx |-> 0]

sphere(cen, rad, mat_ptr) == [center |-> cen, radius |-> rad, mat |-> mat_ptr]

\* struct hit_record
hit_record(t, p, normal, mat_ptr) == [t |-> t, p |-> p, normal |-> normal, mat_ptr |-> mat_ptr]

\* hit_record temp_rec; : the vec3 members are zeroed by vec3(), mat_ptr is
\* null; t is indeterminate, and no path reads it before sphere::hit sets it
FreshRec == hit_record(0, <<0, 0, 0>>, <<0, 0, 0>>, NullMat)

\* the mutant of SphereHit: the farther root is tried first
SphereHitFarFirst(s, ry, tmin, tmax, rc) ==
    LET oc == VSub(ry.orig, s.center)
        a == dot(ry.dir, ry.dir)
        b == dot(oc, ry.dir)
        c == FSub(dot(oc, oc), FMul(s.radius, s.radius))
        discriminant == FSub(FMul(b, b), FMul(a, c))
        temp1 == FDiv(FSub(FNeg(b), FSqrt(discriminant)), a)
        temp2 == FDiv(FAdd(FNeg(b), FSqrt(discriminant)), a)
        Accept(temp) ==
            LET p == at(ry, temp)
            IN  [hit |-> TRUE,
                 rec |-> hit_record(temp, p, VDivS(VSub(p, s.center), s.radius), s.mat)]
    IN  IF FGt(discriminant, 0)
        THEN IF FLt(temp2, tmax) /\ FGt(temp2, tmin) THEN Accept(temp2)
             ELSE IF FLt(temp1, tmax) /\ FGt(temp1, tmin) THEN Accept(temp1)
             ELSE [hit |-> FALSE, rec |-> rc]
        ELSE [hit |-> FALSE, rec |-> rc]

\* the mutant of SphereHit: a call that finds no root in range has
\* already written the material to the record
SphereHitWritesOnMiss(s, ry, tmin, tmax, rc) ==
    LET oc == VSub(ry.orig, s.center)
        a == dot(ry.dir, ry.dir)
        b == dot(oc, ry.dir)
        c == FSub(dot(oc, oc), FMul(s.radius, s.radius))
        discriminant == FSub(FMul(b, b), FMul(a, c))
        temp1 == FDiv(FSub(FNeg(b), FSqrt(discriminant)), a)
        temp2 == FDiv(FAdd(FNeg(b), FSqrt(discriminant)), a)
        Accept(temp) ==
            LET p == at(ry, temp)
            IN  [hit |-> TRUE,
                 rec |-> hit_record(temp, p, VDivS(VSub(p, s.center), s.radius), s.mat)]
    IN  IF FGt(discriminant, 0)
        THEN IF FLt(temp1, tmax) /\ FGt(temp1, tmin) THEN Accept(temp1)
             ELSE IF FLt(temp2, tmax) /\ FGt(temp2, tmin) THEN Accept(temp2)
             ELSE [hit |-> FALSE, rec |-> [rc EXCEPT !.mat_ptr = s.mat]]
        ELSE [hit |-> FALSE, rec |-> [rc EXCEPT !.mat_ptr = s.mat]]

\* sphere::hit: the result and the record it leaves in rec (rc on entry)
SphereHit(s, ry, tmin, tmax, rc) ==
    LET oc == VSub(ry.orig, s.center)
        a == dot(ry.dir, ry.dir)
        b == dot(oc, ry.dir)
        c == FSub(dot(oc, oc), FMul(s.radius, s.radius))
        discriminant == FSub(FMul(b, b), FMul(a, c))
        temp1 == FDiv(FSub(FNeg(b), FSqrt(discriminant)), a)
        temp2 == FDiv(FAdd(FNeg(b), FSqrt(discriminant)), a)
        Accept(temp) ==
            LET p == at(ry, temp)
            IN  [hit |-> TRUE,
                 rec |-> hit_record(temp, p, VDivS(VSub(p, s.center), s.radius), s.mat)]
    IN  IF FGt(discriminant, 0)
        THEN IF FLt(temp1, tmax) /\ FGt(temp1, tmin) THEN Accept(temp1)
             ELSE IF FLt(temp2, tmax) /\ FGt(temp2, tmin) THEN Accept(temp2)
             ELSE [hit |-> FALSE, rec |-> rc]
        ELSE [hit |-> FALSE, rec |-> rc]

\* the mutant of HitListBody: the search range is not narrowed after a hit
HitListBodyNoNarrow(st, object, ry, tmin) ==
    LET h == SphereHit(object, ry, tmin, st.closest_so_far, st.temp_rec)
    IN  IF h.hit
        THEN [temp_rec |-> h.rec, hit_anything |-> TRUE,
              closest_so_far |-> st.closest_so_far, rec |-> h.rec]
        ELSE [st EXCEPT !.temp_rec = h.rec]

\* the mutant of HitListBody: the first hit found is kept
HitListBodyFirstFound(st, object, ry, tmin) ==
    LET h == SphereHit(object, ry, tmin, st.closest_so_far, st.temp_rec)
    IN  IF h.hit /\ ~st.hit_anything
        THEN [temp_rec |-> h.rec, hit_anything |-> TRUE,
              closest_so_far |-> h.rec.t, rec |-> h.rec]
        ELSE [st EXCEPT !.temp_rec = h.rec]

\* one iteration of the loop of hitable_list::hit over the locals st
HitListBody(st, object, ry, tmin) ==
    LET h == SphereHit(object, ry, tmin, st.closest_so_far, st.temp_rec)
    IN  IF h.hit
        THEN [temp_rec |-> h.rec, hit_anything |-> TRUE,
              closest_so_far |-> h.rec.t, rec |-> h.rec]
        ELSE [st EXCEPT !.temp_rec = h.rec]

RECURSIVE HitListLoop(_, _, _, _, _)
\* the loop of hitable_list::hit from position i on
HitListLoop(st, objs, i, ry, tmin) ==
    IF i > Len(objs) THEN st
    ELSE HitListLoop(HitListBody(st, objs[i], ry, tmin), objs, i + 1, ry, tmin)

\* hitable_list::hit: the returned bool and the caller's record afterwards
HitListHit(objs, ry, tmin, tmax, rc) ==
    LET st == HitListLoop([temp_rec |-> FreshRec, hit_anything |-> FALSE,
                           closest_so_far |-> tmax, rec |-> rc], objs, 1, ry, tmin)
    IN  [hit |-> st.hit_anything, rec |-> st.rec]

-----------------------------------------------------------------------------
(* materials: scatter (material.h)                                          *)

\* the largest value of rand()
RAND_MAX == 3

\* metal::reflect and dielectric::reflect
reflect(v, n) == VSub(v, VScale(n, FMul(Real(2), dot(v, n))))

\* lambertian::scatter, p the value of random_in_unit_sphere()
LambertianResult(m, rc, target) ==
    [scattered |-> ray(rc.p, VSub(target, rc.p)),
     attenuation |-> m.albedo,
     ok |-> TRUE]

LambertianScatter(m, r_in, rc, p) ==
    LambertianResult(m, rc, VAdd(VAdd(rc.p, rc.normal), p))

\* the mutant of MetalResult: a metal never absorbs
MetalResultNeverAbsorbs(m, rc, scattered) ==
    [scattered |-> scattered, attenuation |-> m.albedo, ok |-> TRUE]

\* metal::scatter
MetalResult(m, rc, scattered) ==
    [scattered |-> scattered,
     attenuation |-> m.albedo,
     ok |-> FGt(dot(scattered.dir, rc.normal), 0)]

MetalScatter(m, r_in, rc) ==
    MetalResult(m, rc, ray(rc.p, reflect(unit_vector(r_in.dir), rc.normal)))

\* dielectric::refract, lines 144-150, on the locals uv, dt, discriminant
RefractResult(n, ni_over_nt, refracted0, uv, dt, discriminant) ==
    IF FGt(discriminant, 0)
    THEN [ok |-> TRUE,
          refracted |-> VSub(VScale(VSub(uv, VScale(n, dt)), ni_over_nt),
                             VScale(n, FSqrt(discriminant)))]
    ELSE [ok |-> FALSE, refracted |-> refracted0]

\* dielectric::refract, line 142
RefractDisc(n, ni_over_nt, refracted0, uv, dt) ==
    RefractResult(n, ni_over_nt, refracted0, uv, dt,
        FSub(Real(1), FMul(FMul(ni_over_nt, ni_over_nt), FSub(Real(1), FMul(dt, dt)))))

\* dielectric::refract, line 138
RefractUnit(n, ni_over_nt, refracted0, uv) ==
    RefractDisc(n, ni_over_nt, refracted0, uv, dot(uv, n))

\* dielectric::refract: the returned bool and the refracted argument
\* afterwards (refracted0 on entry)
refract(v, n, ni_over_nt, refracted0) ==
    RefractUnit(n, ni_over_nt, refracted0, unit_vector(v))

RECURSIVE FPow(_, _)
\* pow(x, k) for a natural exponent k
FPow(x, k) == IF k = 0 THEN Real(1) ELSE FMul(x, FPow(x, k - 1))

\* dielectric::schlick
SchlickPoly(r0, cosine) ==
    FAdd(r0, FMul(FSub(Real(1), r0), FPow(FSub(Real(1), cosine), 5)))

SchlickSquare(r0, cosine) == SchlickPoly(FMul(r0, r0), cosine)

schlick(ref_idx, cosine) ==
    SchlickSquare(FDiv(FSub(Real(1), ref_idx), FAdd(Real(1), ref_idx)), cosine)

\* dielectric::scatter from line 210 on: the draw rnd of rand() against
\* reflect_prob chooses between the reflected and the refracted direction
DielectricChoose(rc, rnd, reflected, rf, reflect_prob) ==
    [scattered |-> IF FLt(FDiv(Real(rnd), Real(RAND_MAX)), reflect_prob)
                   THEN ray(rc.p, reflected)
                   ELSE ray(rc.p, rf.refracted),
     attenuation |-> <<Real(1), Real(1), Real(1)>>,
     ok |-> TRUE,
     refracts |-> rf.ok,
     reflected |-> reflected]

\* dielectric::scatter, lines 200-208: rf is the outcome of refract()
DielectricProb(m, rc, rnd, reflected, rf, cosine) ==
    DielectricChoose(rc, rnd, reflected, rf,
                     IF rf.ok THEN schlick(m.ref_idx, cosine) ELSE Real(1))

\* dielectric::scatter, lines 186-201, the ray leaving the medium
\* (exiting) or entering it; vec3 refracted; is zeroed by vec3()
DielectricSide(m, r_in, rc, rnd, exiting, d_n) ==
    DielectricProb(m, rc, rnd,
                   reflect(unit_vector(r_in.dir), rc.normal),
                   refract(r_in.dir,
                           IF exiting THEN VNeg(rc.normal) ELSE rc.normal,
                           IF exiting THEN m.ref_idx ELSE FDiv(Real(1), m.ref_idx),
                           <<0, 0, 0>>),
                   IF exiting
                   THEN FDiv(FMul(m.ref_idx, d_n), length(r_in.dir))
                   ELSE FDiv(FNeg(d_n), length(r_in.dir)))

\* dielectric::scatter, rnd the value of rand(); refracts tells whether
\* refract() returned true, reflected is the local of that name
DielectricScatter(m, r_in, rc, rnd) ==
    DielectricSide(m, r_in, rc, rnd,
                   FGt(dot(r_in.dir, rc.normal), 0), dot(r_in.dir, rc.normal))

-----------------------------------------------------------------------------
(* random numbers (vec3.h:161-190)                                          *)

\* the values in [0, 1) that the generator is taken to yield: the state of
\* the std::mt19937 is not followed, a draw is any of these
GenValues == { 0, 250, 500, 750, 900, 990 }

\* the function-local statics of random_float before its first call
DistUninit == [init |-> FALSE, a |-> 0, b |-> 0]

\* static std::uniform_real_distribution<float> distribution(min, max);
\* the initializer runs on the first call only
DistAfterCall(d, min, max) == IF d.init THEN d ELSE [init |-> TRUE, a |-> min, b |-> max]

\* distribution(generator) when the generator yields u
DistValue(d, u) == FAdd(d.a, FMul(FSub(d.b, d.a), u))

\* random_float(min, max) when the statics are d and the generator yields u
RandomFloat(d, min, max, u) == DistValue(DistAfterCall(d, min, max), u)

\* random_vec3(min, max) on three successive draws
RandomVec3(d, min, max, u1, u2, u3) ==
    vec3(RandomFloat(d, min, max, u1),
         RandomFloat(DistAfterCall(d, min, max), min, max, u2),
         RandomFloat(DistAfterCall(d, min, max), min, max, u3))

\* the record of one random_float(min, max) call that returned value
RfCall(min, max, value) == [min |-> min, max |-> max, value |-> value]

\* the records of the three calls of random_vec3(min, max) that returned p
RfCallsOfVec3(min, max, p) ==
    << RfCall(min, max, p[1]), RfCall(min, max, p[2]), RfCall(min, max, p[3]) >>

-----------------------------------------------------------------------------
(* color (main.cpp:69-96)                                                   *)

MAX_DEPTH == 50

\* the mutant of DepthExceeded: the cutoff is one bounce early
DepthExceededEarly(d) == d >= MAX_DEPTH

\* if (depth > 50)
\* the mutant of DepthExceeded: the cutoff comes one call too late
DepthExceededLate(d) == d > MAX_DEPTH + 1

DepthExceeded(d) == d > MAX_DEPTH

\* the mutant of BackgroundLerp: white and sky exchanged
BackgroundLerpSwapped(t) ==
    VAdd(VScale(<<500, 700, 1000>>, FSub(Real(1), t)),
         VScale(<<1000, 1000, 1000>>, t))

\* the background gradient, main.cpp:92-95
BackgroundLerp(t) ==
    VAdd(VScale(<<1000, 1000, 1000>>, FSub(Real(1), t)),
         VScale(<<500, 700, 1000>>, t))

Background(ry) == BackgroundLerp(FMul(500, FAdd(unit_vector(ry.dir)[2], Real(1))))

Black == <<0, 0, 0>>

-----------------------------------------------------------------------------
(* the parts of the state a specification does not exercise                 *)

NoCall == [made |-> FALSE, object |-> sphere(<<0, 0, 0>>, 0, NullMat), t_max |-> 0,
           hit |-> FALSE, rec |-> FreshRec]

NoScatter == [made |-> FALSE, refracts |-> FALSE, rnd |-> 0, p |-> <<0, 0, 0>>,
              scattered |-> ray(<<0, 0, 0>>, <<0, 0, 0>>), reflected |-> <<0, 0, 0>>]

HitIdle ==
    /\ r = ray(<<0, 0, 0>>, <<0, 0, 0>>)
    /\ t_min = 0
    /\ t_max = 0
    /\ objects = <<>>
    /\ idx = 1
    /\ temp_rec = FreshRec
    /\ hit_anything = FALSE
    /\ closest_so_far = 0
    /\ rec = FreshRec
    /\ last_call = NoCall
    /\ hpc = "idle"

\* the statics of random_float once randomScene has run: its first call,
\* random_float() at main.cpp:23, constructs the distribution over [0, 1)
RngIdle ==
    /\ distribution = [init |-> TRUE, a |-> 0, b |-> Real(1)]
    /\ gen_users = {}
    /\ rand_users = {}
    /\ rf_calls = <<>>

ColorIdle ==
    /\ world = <<>>
    /\ color_r = ray(<<0, 0, 0>>, <<0, 0, 0>>)
    /\ depth = 0
    /\ color_rec = FreshRec
    /\ stack = <<>>
    /\ retval = <<0, 0, 0>>
    /\ ending = "none"
    /\ path = <<>>
    /\ terminal = <<0, 0, 0>>
    /\ hit_queries = 0
    /\ scatter_calls = 0
    /\ last_scatter = NoScatter
    /\ cpc = "idle"

\* randomScene has returned
SceneIdle ==
    /\ scene_a = 0
    /\ scene_b = 0
    /\ choose_mat = 0
    /\ center = <<0, 0, 0>>
    /\ rpc = "render"

NumThreads == 2

\* the threads of the team of the parallel loop
Workers == 1..NumThreads

RenderIdle ==
    /\ pixel_j = 0
    /\ pixel_i = 0
    /\ col = <<0, 0, 0>>
    /\ priv = [w \in Workers |-> <<0, 0, 0>>]
    /\ todo = {}
    /\ combined = {}
    /\ wpc = [w \in Workers |-> "idle"]
    /\ draws = [w \in Workers |-> 0]
    /\ iter_s = [w \in Workers |-> -1]
    /\ samples = {}
    /\ header_written = FALSE
    /\ out_pixels = <<>>
    /\ last_line = <<0, 0, 0>>
    /\ mpc = "idle"

-----------------------------------------------------------------------------
(* SpecHit: hitable_list::hit run on drawn scenes, rays and ranges          *)

MaxObjects == 3

\* the epsilon 0.0001 of main.cpp:78: about a thousand float roundings at
\* unit size in the source, fifty roundings of the model here, so that, as
\* in the source, the rounding of a hit point does not pass for a new hit
T_EPS == 50

MatA == lambertian("matA", <<800, 300, 300>>)

MatB == metal("matB", <<800, 600, 200>>)

MatC == dielectric("matC", 1500)

\* primitives on and off the x axis: sphere 1 and 2 coincide (different
\* materials), 3 meets 1 on the x axis at x = 2 with another normal, 4
\* contains the origin, 5 lies behind 1, 6 lies on the y axis
HitSpheres ==
    { sphere(<<3000, 0, 0>>, 1000, MatA),
      sphere(<<3000, 0, 0>>, 1000, MatB),
      sphere(<<2600, 800, 0>>, 1000, MatC),
      sphere(<<0, 0, 0>>, 1000, MatB),
      sphere(<<6000, 0, 0>>, 1000, MatA),
      sphere(<<0, 3000, 0>>, 1000, MatC) }

HitRays ==
    { ray(<<0, 0, 0>>, <<1000, 0, 0>>),
      ray(<<0, 0, 0>>, <<2000, 0, 0>>),
      ray(<<0, 0, 0>>, <<0, 1000, 0>>) }

\* (t_min, t_max): the range color() asks for, and two bounded ranges whose
\* ends fall on intersection parameters
HitRanges == { <<T_EPS, FLT_MAX>>, <<2000, 5000>>, <<T_EPS, 2000>> }

\* the records the caller passes in: the fresh record of color() and a
\* record left by an earlier query
CallerRecs ==
    { FreshRec,
      hit_record(7000, <<7000, 0, 0>>, <<1000, 0, 0>>, MatA) }

\* the lists of at most MaxObjects distinct primitives
HitLists ==
    UNION { { q \in [1..n -> HitSpheres] : \A i, j \in 1..n : q[i] = q[j] => i = j }
            : n \in 0..MaxObjects }

InitHit ==
    /\ r \in HitRays
    /\ \E rg \in HitRanges : t_min = rg[1] /\ t_max = rg[2] /\ closest_so_far = rg[2]
    /\ objects \in HitLists
    /\ idx = 1
    /\ temp_rec = FreshRec
    /\ hit_anything = FALSE
    /\ rec \in CallerRecs
    /\ last_call = NoCall
    /\ hpc = "loop"
    /\ RngIdle
    /\ ColorIdle
    /\ SceneIdle
    /\ RenderIdle

\* for (const auto& object: objects) if (object->hit(...)) { ... }
HitListIter ==
    /\ hpc = "loop"
    /\ idx <= Len(objects)
    /\ LET st == [temp_rec |-> temp_rec, hit_anything |-> hit_anything,
                  closest_so_far |-> closest_so_far, rec |-> rec]
           h == SphereHit(objects[idx], r, t_min, closest_so_far, temp_rec)
           nw == HitListBody(st, objects[idx], r, t_min)
       IN  /\ temp_rec' = nw.temp_rec
           /\ hit_anything' = nw.hit_anything
           /\ closest_so_far' = nw.closest_so_far
           /\ rec' = nw.rec
           /\ last_call' = [made |-> TRUE, object |-> objects[idx],
                            t_max |-> closest_so_far, hit |-> h.hit, rec |-> h.rec]
    /\ idx' = idx + 1
    /\ UNCHANGED <<r, t_min, t_max, objects, hpc, rngVars, colorVars, sceneVars, renderVars>>

\* return hit_anything;
HitListReturn ==
    /\ hpc = "loop"
    /\ idx > Len(objects)
    /\ hpc' = "done"
    /\ UNCHANGED <<r, t_min, t_max, objects, idx, temp_rec, hit_anything,
                   closest_so_far, rec, last_call, rngVars, colorVars, sceneVars, renderVars>>

NextHit == HitListIter \/ HitListReturn

SpecHit == InitHit /\ [][NextHit]_vars

-----------------------------------------------------------------------------
(* SpecColor: color(r, world, depth) on drawn scenes, rays and depths       *)

MatD == metal("matD", <<700, 600, 500>>)

\* the scenes: none; two facing mirrors; a diffuse sphere; a glass sphere
\* around the origin; a metal sphere around the origin; two metal spheres
\* that send a ray along the x axis from one to the other and then to the sky
Scenes ==
    { <<>>,
      << sphere(<<3000, 0, 0>>, 1000, MatB), sphere(<<-3000, 0, 0>>, 1000, MatD) >>,
      << sphere(<<3000, 0, 0>>, 1000, MatA) >>,
      << sphere(<<0, 0, 0>>, 1000, MatC) >>,
      << sphere(<<0, 0, 0>>, 1000, MatB) >>,
      << sphere(<<3000, -500, 0>>, 1000, MatB), sphere(<<0, 2000, 0>>, 1000, MatD) >> }

\* the rays: color() is entered with camera rays and with scattered rays,
\* which start on a surface and so possibly inside another primitive
ColorRays ==
    { ray(<<0, 0, 0>>, <<1000, 0, 0>>),
      ray(<<0, 0, 0>>, <<0, 1000, 0>>),
      ray(<<0, 0, 0>>, <<0, -1000, 0>>),
      ray(<<0, 800, 0>>, <<1000, 0, 0>>),
      ray(<<-3000, 0, 0>>, <<1000, 0, 0>>) }

\* the depths color() is entered with: 0 by main, up to 51 by itself
StartDepths == { 0, MAX_DEPTH, MAX_DEPTH + 1 }

InitColor ==
    /\ HitIdle
    /\ RngIdle
    /\ SceneIdle
    /\ RenderIdle
    /\ world \in Scenes
    /\ color_r \in ColorRays
    /\ depth \in StartDepths
    /\ color_rec = FreshRec
    /\ stack = <<>>
    /\ retval = <<0, 0, 0>>
    /\ ending = "none"
    /\ path = <<>>
    /\ terminal = <<0, 0, 0>>
    /\ hit_queries = 0
    /\ scatter_calls = 0
    /\ last_scatter = NoScatter
    /\ cpc = "call"

\* world.hit(r, 0.0001, FLT_MAX, rec) of the active call
WorldHit == HitListHit(world, color_r, T_EPS, FLT_MAX, color_rec)

\* return attenuation*color(scattered, world, depth+1): the active call is
\* suspended with its attenuation and the callee is entered
Recurse(sc) ==
    /\ stack' = Append(stack, [r |-> color_r, depth |-> depth, attenuation |-> sc.attenuation])
    /\ color_r' = sc.scattered
    /\ depth' = depth + 1
    /\ color_rec' = FreshRec
    /\ cpc' = "call"
    /\ UNCHANGED <<retval, ending, path, terminal>>

\* a return with value v that ends the path in event e
Return(v, e) ==
    /\ retval' = v
    /\ ending' = e
    /\ path' = [k \in 1..Len(stack) |-> stack[k].attenuation]
    /\ terminal' = v
    /\ cpc' = "ret"
    /\ UNCHANGED <<color_r, depth, stack>>

\* if (rec.mat_ptr->scatter(...)) return attenuation*color(...); else
\* return vec3(0,0,0); with sc the outcome of scatter and rc the record
ScatterOutcome(sc, rc) ==
    IF sc.ok
    THEN Recurse(sc)
    ELSE Return(Black, "absorbed") /\ color_rec' = rc

\* if (depth > 50) return vec3(0,0,0);
ColorCutoff ==
    /\ cpc = "call"
    /\ DepthExceeded(depth)
    /\ Return(Black, "cutoff")
    /\ UNCHANGED <<world, color_rec, hit_queries, scatter_calls, last_scatter>>
    /\ UNCHANGED <<hitVars, rngVars, sceneVars, renderVars>>

Miss(h) ==
    /\ ~h.hit
    /\ hit_queries' = hit_queries + 1
    /\ color_rec' = h.rec
    /\ Return(Background(color_r), "miss")
    /\ UNCHANGED <<world, scatter_calls, last_scatter>>

\* world.hit is false: the background gradient
ColorMiss ==
    /\ cpc = "call"
    /\ ~DepthExceeded(depth)
    /\ \E h \in {WorldHit} : Miss(h)
    /\ UNCHANGED <<hitVars, rngVars, sceneVars, renderVars>>

HitMetal(h) ==
    /\ h.hit
    /\ h.rec.mat_ptr.kind = "metal"
    /\ hit_queries' = hit_queries + 1
    /\ scatter_calls' = scatter_calls + 1
    /\ \E sc \in {MetalScatter(h.rec.mat_ptr, color_r, h.rec)} : ScatterOutcome(sc, h.rec)
    /\ UNCHANGED <<world, last_scatter>>

\* a hit on a metal: metal::scatter, then the recursive call or black
ColorHitMetal ==
    /\ cpc = "call"
    /\ ~DepthExceeded(depth)
    /\ \E h \in {WorldHit} : HitMetal(h)
    /\ UNCHANGED <<hitVars, rngVars, sceneVars, renderVars>>

DielectricOutcome(sc, rc, rnd) ==
    /\ last_scatter' = [made |-> TRUE, refracts |-> sc.refracts, rnd |-> rnd,
                        p |-> rc.p, scattered |-> sc.scattered,
                        reflected |-> sc.reflected]
    /\ ScatterOutcome(sc, rc)

HitDielectric(h) ==
    /\ h.hit
    /\ h.rec.mat_ptr.kind = "dielectric"
    /\ hit_queries' = hit_queries + 1
    /\ scatter_calls' = scatter_calls + 1
    /\ \E rnd \in 0..RAND_MAX :
          \E sc \in {DielectricScatter(h.rec.mat_ptr, color_r, h.rec, rnd)} :
              DielectricOutcome(sc, h.rec, rnd)
    /\ UNCHANGED <<world>>

\* a hit on a dielectric: dielectric::scatter with one rand() draw, then
\* the recursive call
ColorHitDielectric ==
    /\ cpc = "call"
    /\ ~DepthExceeded(depth)
    /\ \E h \in {WorldHit} : HitDielectric(h)
    /\ UNCHANGED <<hitVars, rngVars, sceneVars, renderVars>>

HitLambertian(h) ==
    /\ h.hit
    /\ h.rec.mat_ptr.kind = "lambertian"
    /\ hit_queries' = hit_queries + 1
    /\ scatter_calls' = scatter_calls + 1
    /\ color_rec' = h.rec
    /\ cpc' = "sample"
    /\ UNCHANGED <<world, color_r, depth, stack, retval, ending, path, terminal, last_scatter>>

\* a hit on a lambertian: lambertian::scatter enters random_in_unit_sphere
ColorHitLambertian ==
    /\ cpc = "call"
    /\ ~DepthExceeded(depth)
    /\ \E h \in {WorldHit} : HitLambertian(h)
    /\ UNCHANGED <<hitVars, rngVars, sceneVars, renderVars>>

\* the generator values followed for the candidates of random_in_unit_sphere
UnitDraws == { 0, 500, 990 }

Rejected(p) ==
    /\ FGe(squared_length(p), Real(1))
    /\ rf_calls' = RfCallsOfVec3(-Real(1), Real(1), p)

\* random_in_unit_sphere: a candidate outside the unit ball, continue
RandomInUnitSphereReject ==
    /\ cpc = "sample"
    /\ \E u1, u2, u3 \in UnitDraws :
          \E p \in {RandomVec3(distribution, -Real(1), Real(1), u1, u2, u3)} : Rejected(p)
    /\ UNCHANGED <<distribution, gen_users, rand_users, colorVars, hitVars, sceneVars, renderVars>>

Accepted(p) ==
    /\ ~FGe(squared_length(p), Real(1))
    /\ rf_calls' = RfCallsOfVec3(-Real(1), Real(1), p)
    /\ \E sc \in {LambertianScatter(color_rec.mat_ptr, color_r, color_rec, p)} :
          ScatterOutcome(sc, color_rec)

\* random_in_unit_sphere returns p; lambertian::scatter completes and
\* color() makes the recursive call
RandomInUnitSphereAccept ==
    /\ cpc = "sample"
    /\ \E u1, u2, u3 \in UnitDraws :
          \E p \in {RandomVec3(distribution, -Real(1), Real(1), u1, u2, u3)} : Accepted(p)
    /\ UNCHANGED <<world, hit_queries, scatter_calls, last_scatter>>
    /\ UNCHANGED <<hitVars, distribution, gen_users, rand_users, sceneVars, renderVars>>

\* the mutant of Attenuate: the attenuation is dropped
AttenuateDropped(attenuation, v) == v

\* attenuation*color(scattered, world, depth+1)
Attenuate(attenuation, v) == VMulV(attenuation, v)

\* the innermost suspended call receives retval and returns
\* attenuation * retval
ColorReturn ==
    /\ cpc = "ret"
    /\ stack # <<>>
    /\ retval' = Attenuate(stack[Len(stack)].attenuation, retval)
    /\ color_r' = stack[Len(stack)].r
    /\ depth' = stack[Len(stack)].depth
    /\ stack' = SubSeq(stack, 1, Len(stack) - 1)
    /\ UNCHANGED <<world, color_rec, ending, path, terminal, hit_queries, scatter_calls,
                   last_scatter, cpc>>
    /\ UNCHANGED <<hitVars, rngVars, sceneVars, renderVars>>

NextColor ==
    \/ ColorCutoff
    \/ ColorMiss
    \/ ColorHitMetal
    \/ ColorHitDielectric
    \/ ColorHitLambertian
    \/ RandomInUnitSphereReject
    \/ RandomInUnitSphereAccept
    \/ ColorReturn

SpecColor == InitColor /\ [][NextColor]_vars

\* a call of color() is running or suspended: ENABLED <<NextColor>>_vars,
\* written as the state predicate it equals (every hit record carries one
\* of the three materials, so one branch of color() applies)
Running == cpc \in {"call", "sample"} \/ (cpc = "ret" /\ stack # <<>>)

\* random_in_unit_sphere is drawing: ENABLED <<RandomInUnitSphereAccept>>_vars
\* (the candidate (0,0,0) is one of those it accepts)
Sampling == cpc = "sample"

\* WF_vars(NextColor): a running program takes its next step
FairStep == []<>~Running \/ []<><<NextColor>>_vars

\* SF_vars(RandomInUnitSphereAccept): every candidate is accepted with
\* positive probability, so the loop does not reject for ever
FairAccept == <>[]~Sampling \/ []<><<RandomInUnitSphereAccept>>_vars

SpecColorFair == SpecColor /\ FairStep /\ FairAccept

-----------------------------------------------------------------------------
(* SpecRandom: the random_float calls of the program in program order:     *)
(* randomScene (main.cpp:13-60), then the calls made while rendering        *)

\* randomScene loops a and b over -11..10; the model follows the
\* 2*GridSpan by 2*GridSpan cells around the skipped zone at (4, 0.2, 0)
GridSpan == 1

GridA == (4 - GridSpan)..(4 + GridSpan - 1)

GridB == (-GridSpan)..(GridSpan - 1)

InitRandom ==
    /\ HitIdle
    /\ ColorIdle
    /\ RenderIdle
    /\ distribution = DistUninit
    /\ gen_users = {}
    /\ rand_users = {}
    /\ rf_calls = <<>>
    /\ scene_a = 4 - GridSpan
    /\ scene_b = -GridSpan
    /\ choose_mat = 0
    /\ center = <<0, 0, 0>>
    /\ rpc = "choose_mat"

\* float choose_mat = random_float();
SceneChooseMat ==
    /\ rpc = "choose_mat"
    /\ \E u \in GenValues :
          /\ choose_mat' = RandomFloat(distribution, 0, Real(1), u)
          /\ rf_calls' = << RfCall(0, Real(1), RandomFloat(distribution, 0, Real(1), u)) >>
    /\ distribution' = DistAfterCall(distribution, 0, Real(1))
    /\ rpc' = "center"
    /\ UNCHANGED <<scene_a, scene_b, center, gen_users, rand_users>>
    /\ UNCHANGED <<hitVars, colorVars, renderVars>>

\* for (b...) / for (a...): the next cell, or the end of the loops
NextCell ==
    /\ choose_mat' = 0
    /\ center' = <<0, 0, 0>>
    /\ IF scene_b < GridSpan - 1
       THEN scene_b' = scene_b + 1 /\ scene_a' = scene_a /\ rpc' = "choose_mat"
       ELSE IF scene_a < 4 + GridSpan - 1
            THEN scene_b' = -GridSpan /\ scene_a' = scene_a + 1 /\ rpc' = "choose_mat"
            ELSE UNCHANGED <<scene_a, scene_b>> /\ rpc' = "render"

CenterDrawn(x, z) ==
    /\ center' = vec3(FAdd(Real(scene_a), x), 200, FAdd(Real(scene_b), z))
    /\ rf_calls' = << RfCall(0, 900, x), RfCall(0, 900, z) >>

\* vec3 center(a+random_float(0,0.9), 0.2, b+random_float(0,0.9));
SceneCenter ==
    /\ rpc = "center"
    /\ \E u1, u2 \in GenValues :
          CenterDrawn(RandomFloat(distribution, 0, 900, u1),
                      RandomFloat(distribution, 0, 900, u2))
    /\ rpc' = "skip_test"
    /\ UNCHANGED <<scene_a, scene_b, choose_mat, distribution, gen_users, rand_users>>
    /\ UNCHANGED <<hitVars, colorVars, renderVars>>

\* if ((center-vec3(4,0.2,0)).length() < 0.9) continue;
SceneSkip ==
    /\ rpc = "skip_test"
    /\ FLt(length(VSub(center, <<4000, 200, 0>>)), 900)
    /\ NextCell
    /\ UNCHANGED <<rngVars>>
    /\ UNCHANGED <<hitVars, colorVars, renderVars>>

\* mat = make_shared<lambertian>(random_vec3());
SceneLambertian ==
    /\ rpc = "skip_test"
    /\ ~FLt(length(VSub(center, <<4000, 200, 0>>)), 900)
    /\ FLt(choose_mat, 800)
    /\ \E u1, u2, u3 \in GenValues :
          rf_calls' = RfCallsOfVec3(0, Real(1),
                          RandomVec3(distribution, 0, Real(1), u1, u2, u3))
    /\ NextCell
    /\ UNCHANGED <<distribution, gen_users, rand_users>>
    /\ UNCHANGED <<hitVars, colorVars, renderVars>>

\* mat = make_shared<metal>(random_vec3(0,0.5));
SceneMetal ==
    /\ rpc = "skip_test"
    /\ ~FLt(length(VSub(center, <<4000, 200, 0>>)), 900)
    /\ ~FLt(choose_mat, 800)
    /\ FLt(choose_mat, 950)
    /\ \E u1, u2, u3 \in GenValues :
          rf_calls' = RfCallsOfVec3(0, 500,
                          RandomVec3(distribution, 0, 500, u1, u2, u3))
    /\ NextCell
    /\ UNCHANGED <<distribution, gen_users, rand_users>>
    /\ UNCHANGED <<hitVars, colorVars, renderVars>>

\* mat = make_shared<dielectric>(1.5);
SceneDielectric ==
    /\ rpc = "skip_test"
    /\ ~FLt(length(VSub(center, <<4000, 200, 0>>)), 900)
    /\ ~FLt(choose_mat, 800)
    /\ ~FLt(choose_mat, 950)
    /\ NextCell
    /\ UNCHANGED <<rngVars>>
    /\ UNCHANGED <<hitVars, colorVars, renderVars>>

\* float u = (i + random_float())/nx; float v = (j + random_float())/ny;
RenderJitter ==
    /\ rpc = "render"
    /\ \E u1, u2 \in GenValues :
          rf_calls' = << RfCall(0, Real(1), RandomFloat(distribution, 0, Real(1), u1)),
                         RfCall(0, Real(1), RandomFloat(distribution, 0, Real(1), u2)) >>
    /\ UNCHANGED <<scene_a, scene_b, choose_mat, center, rpc,
                   distribution, gen_users, rand_users>>
    /\ UNCHANGED <<hitVars, colorVars, renderVars>>

\* auto p = random_vec3(-1,1); in random_in_unit_sphere
RenderUnitSphereCandidate ==
    /\ rpc = "render"
    /\ \E u1, u2, u3 \in GenValues :
          rf_calls' = RfCallsOfVec3(-Real(1), Real(1),
                          RandomVec3(distribution, -Real(1), Real(1), u1, u2, u3))
    /\ UNCHANGED <<scene_a, scene_b, choose_mat, center, rpc,
                   distribution, gen_users, rand_users>>
    /\ UNCHANGED <<hitVars, colorVars, renderVars>>

NextRandom ==
    \/ SceneChooseMat
    \/ SceneCenter
    \/ SceneSkip
    \/ SceneLambertian
    \/ SceneMetal
    \/ SceneDielectric
    \/ RenderJitter
    \/ RenderUnitSphereCandidate

SpecRandom == InitRandom /\ [][NextRandom]_vars

-----------------------------------------------------------------------------
(* SpecRender: main (main.cpp:98-183): the header, the two pixel loops,    *)
(* the sample loop with its reduction, the conversion and the pixel lines  *)

\* image width, image height and samples per pixel followed by the model
nx == 2

ny == 2

ns == 2

\* the values color(r, world, 0) returns to the sample loop: black (cutoff
\* or absorption), the sky at the zenith, and the not-a-number colour of a
\* ray whose direction is the zero vector
TraceColors == { Black, BackgroundLerp(Real(1)), <<NaN, NaN, NaN>> }

\* the mutant of clamp: no upper limit
clampNoUpper(x, min, max) == IF FLt(x, min) THEN min ELSE x

\* clamp (vec3.h:169-173)
clamp(x, min, max) ==
    IF FLt(x, min) THEN min
    ELSE IF FGt(x, max) THEN max
    ELSE x

\* vec3::operator/=(const float t): float k = 1.0/t; e[c] *= k;
VDivAssign(v, t) == VScale(v, FDiv(Real(1), t))

\* col[c] = clamp(sqrt(col[c]), 0, 0.999);
GammaClamp(v) ==
    vec3(clamp(FSqrt(v[1]), 0, 999),
         clamp(FSqrt(v[2]), 0, 999),
         clamp(FSqrt(v[3]), 0, 999))

\* col /= ns; the three clamp lines; col *= 256;
PixelValue(sum) == VScale(GammaClamp(VDivAssign(sum, Real(ns))), Real(256))

INT_MIN == -2147483647 - 1

\* int(x): truncation toward zero; the conversion of a not-a-number is
\* undefined, the builds yield INT_MIN (x86 cvttss2si) or 0
IntOf(x) ==
    IF IsNaN(x) THEN { INT_MIN, 0 }
    ELSE { Sign(x) * (Abs(x) \div Scale) }

\* the mutant of FirstScanline: the loop starts one scanline too high
FirstScanlineOffByOne == ny

\* for (int j=ny-1; ...
FirstScanline == ny - 1

InitRender ==
    /\ HitIdle
    /\ RngIdle
    /\ ColorIdle
    /\ SceneIdle
    /\ pixel_j = 0
    /\ pixel_i = 0
    /\ col = <<0, 0, 0>>
    /\ priv = [w \in Workers |-> <<0, 0, 0>>]
    /\ todo = {}
    /\ combined = {}
    /\ wpc = [w \in Workers |-> "idle"]
    /\ draws = [w \in Workers |-> 0]
    /\ iter_s = [w \in Workers |-> -1]
    /\ samples = {}
    /\ header_written = FALSE
    /\ out_pixels = <<>>
    /\ last_line = <<0, 0, 0>>
    /\ mpc = "start"

\* f << "P3\n" << nx << " " << ny << "\n255\n"; and the entry of the loops
MainHeader ==
    /\ mpc = "start"
    /\ header_written' = TRUE
    /\ pixel_j' = FirstScanline
    /\ pixel_i' = 0
    /\ mpc' = IF FirstScanline >= 0 /\ 0 < nx THEN "pixel" ELSE "close"
    /\ UNCHANGED <<col, priv, todo, combined, wpc, draws, out_pixels, last_line>>
    /\ UNCHANGED <<iter_s, samples>>
    /\ UNCHANGED <<hitVars, rngVars, colorVars, sceneVars>>

\* vec3 col(0,0,0); and the entry of the parallel loop: every thread gets
\* a private col initialised by omp_priv(0,0,0)
PixelBegin ==
    /\ mpc = "pixel"
    /\ col' = <<0, 0, 0>>
    /\ priv' = [w \in Workers |-> <<0, 0, 0>>]
    /\ todo' = 0..(ns - 1)
    /\ combined' = {}
    /\ samples' = {}
    /\ mpc' = "parallel"
    /\ UNCHANGED <<pixel_j, pixel_i, wpc, draws, iter_s, header_written, out_pixels, last_line>>
    /\ UNCHANGED <<hitVars, rngVars, colorVars, sceneVars>>

\* one iteration s of the sample loop run by thread w: col += color(r, world, 0)
\* on the thread's private col
WorkerIteration(w) ==
    /\ mpc = "parallel"
    /\ w \notin combined
    /\ wpc[w] = "idle"
    /\ \E s \in todo, c \in TraceColors :
          /\ todo' = todo \ {s}
          /\ priv' = [priv EXCEPT ![w] = VAdd(priv[w], c)]
          /\ samples' = samples \cup { [s |-> s, w |-> w, c |-> c] }
    /\ UNCHANGED <<pixel_j, pixel_i, col, combined, wpc, draws, iter_s, header_written,
                   out_pixels, last_line, mpc>>
    /\ UNCHANGED <<hitVars, rngVars, colorVars, sceneVars>>

\* the mutant of Reduce: the private copy overwrites col
ReduceOverwrite(omp_out, omp_in) == omp_in

\* omp declare reduction(+ : vec3 : omp_out+=omp_in)
Reduce(omp_out, omp_in) == VAdd(omp_out, omp_in)

\* the reduction: omp_out += omp_in, once for each thread that has no
\* iteration left to run
WorkerCombine(w) ==
    /\ mpc = "parallel"
    /\ w \notin combined
    /\ wpc[w] = "idle"
    /\ todo = {} \/ \E w2 \in Workers \ combined : w2 # w
    /\ col' = Reduce(col, priv[w])
    /\ combined' = combined \cup {w}
    /\ UNCHANGED <<pixel_j, pixel_i, priv, todo, wpc, draws, header_written,
                   out_pixels, last_line, mpc>>
    /\ UNCHANGED <<iter_s, samples>>
    /\ UNCHANGED <<hitVars, rngVars, colorVars, sceneVars>>

\* the barrier at the end of the parallel loop
RegionEnd ==
    /\ mpc = "parallel"
    /\ todo = {}
    /\ combined = Workers
    /\ mpc' = "average"
    /\ UNCHANGED <<pixel_j, pixel_i, col, priv, todo, combined, wpc, draws,
                   header_written, out_pixels, last_line>>
    /\ UNCHANGED <<iter_s, samples>>
    /\ UNCHANGED <<hitVars, rngVars, colorVars, sceneVars>>

\* i++ / j-- and the loop tests
AdvanceLoops ==
    IF pixel_i + 1 < nx
    THEN pixel_i' = pixel_i + 1 /\ pixel_j' = pixel_j /\ mpc' = "pixel"
    ELSE IF pixel_j - 1 >= 0
         THEN pixel_i' = 0 /\ pixel_j' = pixel_j - 1 /\ mpc' = "pixel"
         ELSE UNCHANGED <<pixel_i, pixel_j>> /\ mpc' = "close"

\* f << int(col.e[0]) << " " << int(col.e[1]) << " " << int(col.e[2]) << "\n";
WriteLine(v) ==
    /\ col' = v
    /\ \E e0 \in IntOf(v[1]), e1 \in IntOf(v[2]), e2 \in IntOf(v[3]) :
          last_line' = <<e0, e1, e2>>
    /\ out_pixels' = Append(out_pixels, <<pixel_i, pixel_j>>)

\* main.cpp:165-176 and the step of the loops
PixelWrite ==
    /\ mpc = "average"
    /\ WriteLine(PixelValue(col))
    /\ AdvanceLoops
    /\ UNCHANGED <<priv, todo, combined, wpc, draws, header_written>>
    /\ UNCHANGED <<iter_s, samples>>
    /\ UNCHANGED <<hitVars, rngVars, colorVars, sceneVars>>

\* f.close();
MainClose ==
    /\ mpc = "close"
    /\ mpc' = "closed"
    /\ UNCHANGED <<pixel_j, pixel_i, col, priv, todo, combined, wpc, draws,
                   header_written, out_pixels, last_line>>
    /\ UNCHANGED <<iter_s, samples>>
    /\ UNCHANGED <<hitVars, rngVars, colorVars, sceneVars>>

NextRender ==
    \/ MainHeader
    \/ PixelBegin
    \/ \E w \in Workers : WorkerIteration(w)
    \/ \E w \in Workers : WorkerCombine(w)
    \/ RegionEnd
    \/ PixelWrite
    \/ MainClose

SpecRender == InitRender /\ [][NextRender]_vars

-----------------------------------------------------------------------------
(* SpecParallel: the parallel sample loop of one pixel (main.cpp:150-162),  *)
(* each thread followed through the calls of its iteration that touch a     *)
(* random generator                                                         *)

\* the draws one color() call makes while it is followed
MaxTraceDraws == 2

\* the state at the entry of the parallel loop of the first pixel
InitParallel ==
    /\ HitIdle
    /\ RngIdle
    /\ ColorIdle
    /\ SceneIdle
    /\ pixel_j = FirstScanline
    /\ pixel_i = 0
    /\ col = <<0, 0, 0>>
    /\ priv = [w \in Workers |-> <<0, 0, 0>>]
    /\ todo = 0..(ns - 1)
    /\ combined = {}
    /\ wpc = [w \in Workers |-> "idle"]
    /\ draws = [w \in Workers |-> 0]
    /\ iter_s = [w \in Workers |-> -1]
    /\ samples = {}
    /\ header_written = TRUE
    /\ out_pixels = <<>>
    /\ last_line = <<0, 0, 0>>
    /\ mpc = "parallel"

\* thread w starts an iteration s; its first statement calls random_float()
ParTake(w) ==
    /\ mpc = "parallel"
    /\ w \notin combined
    /\ wpc[w] = "idle"
    /\ \E s \in todo :
          /\ todo' = todo \ {s}
          /\ iter_s' = [iter_s EXCEPT ![w] = s]
    /\ wpc' = [wpc EXCEPT ![w] = "jitter_u"]
    /\ draws' = [draws EXCEPT ![w] = 0]
    /\ UNCHANGED <<pixel_j, pixel_i, col, priv, combined, samples, header_written,
                   out_pixels, last_line, mpc>>
    /\ UNCHANGED <<hitVars, rngVars, colorVars, sceneVars>>

\* the place thread w is at when its random_float call has returned
AfterRandomFloat(pc) ==
    IF pc = "jitter_u" THEN "jitter_v" ELSE "trace"

\* thread w enters distribution(generator) on the function's static
\* generator (vec3.h:164-165): no lock is taken, the statics are shared
ParRandomFloatEnter(w) ==
    /\ mpc = "parallel"
    /\ wpc[w] \in { "jitter_u", "jitter_v", "unit_sphere" }
    /\ w \notin gen_users
    /\ gen_users' = gen_users \cup {w}
    /\ UNCHANGED <<distribution, rand_users, rf_calls>>
    /\ UNCHANGED <<hitVars, colorVars, sceneVars, renderVars>>

\* thread w leaves distribution(generator)
ParRandomFloatLeave(w) ==
    /\ mpc = "parallel"
    /\ w \in gen_users
    /\ gen_users' = gen_users \ {w}
    /\ wpc' = [wpc EXCEPT ![w] = AfterRandomFloat(wpc[w])]
    /\ UNCHANGED <<distribution, rand_users, rf_calls>>
    /\ UNCHANGED <<pixel_j, pixel_i, col, priv, todo, combined, draws, iter_s, samples,
                   header_written, out_pixels, last_line, mpc>>
    /\ UNCHANGED <<hitVars, colorVars, sceneVars>>

\* color() has hit a lambertian sphere: random_in_unit_sphere calls
\* random_float (material.h:43, vec3.h:186)
ParScatterLambertian(w) ==
    /\ mpc = "parallel"
    /\ wpc[w] = "trace"
    /\ draws[w] < MaxTraceDraws
    /\ wpc' = [wpc EXCEPT ![w] = "unit_sphere"]
    /\ draws' = [draws EXCEPT ![w] = draws[w] + 1]
    /\ UNCHANGED <<pixel_j, pixel_i, col, priv, todo, combined, iter_s, samples, header_written,
                   out_pixels, last_line, mpc>>
    /\ UNCHANGED <<hitVars, rngVars, colorVars, sceneVars>>

\* color() has hit a dielectric sphere: thread w enters rand()
\* (material.h:211) on the hidden state of the C library
ParRandEnter(w) ==
    /\ mpc = "parallel"
    /\ wpc[w] = "trace"
    /\ draws[w] < MaxTraceDraws
    /\ rand_users' = rand_users \cup {w}
    /\ wpc' = [wpc EXCEPT ![w] = "rand"]
    /\ draws' = [draws EXCEPT ![w] = draws[w] + 1]
    /\ UNCHANGED <<distribution, gen_users, rf_calls>>
    /\ UNCHANGED <<pixel_j, pixel_i, col, priv, todo, combined, iter_s, samples, header_written,
                   out_pixels, last_line, mpc>>
    /\ UNCHANGED <<hitVars, colorVars, sceneVars>>

\* thread w leaves rand()
ParRandLeave(w) ==
    /\ mpc = "parallel"
    /\ wpc[w] = "rand"
    /\ rand_users' = rand_users \ {w}
    /\ wpc' = [wpc EXCEPT ![w] = "trace"]
    /\ UNCHANGED <<distribution, gen_users, rf_calls>>
    /\ UNCHANGED <<pixel_j, pixel_i, col, priv, todo, combined, draws, iter_s, samples,
                   header_written, out_pixels, last_line, mpc>>
    /\ UNCHANGED <<hitVars, colorVars, sceneVars>>

\* color() returns to thread w: col += color(r, world, 0) on the private col
ParAccumulate(w) ==
    /\ mpc = "parallel"
    /\ wpc[w] = "trace"
    /\ \E c \in TraceColors :
          /\ priv' = [priv EXCEPT ![w] = VAdd(priv[w], c)]
          /\ samples' = samples \cup { [s |-> iter_s[w], w |-> w, c |-> c] }
    /\ iter_s' = [iter_s EXCEPT ![w] = -1]
    /\ wpc' = [wpc EXCEPT ![w] = "idle"]
    /\ draws' = [draws EXCEPT ![w] = 0]
    /\ UNCHANGED <<pixel_j, pixel_i, col, todo, combined, header_written,
                   out_pixels, last_line, mpc>>
    /\ UNCHANGED <<hitVars, rngVars, colorVars, sceneVars>>

NextParallel ==
    \/ \E w \in Workers : ParTake(w)
    \/ \E w \in Workers : ParRandomFloatEnter(w)
    \/ \E w \in Workers : ParRandomFloatLeave(w)
    \/ \E w \in Workers : ParScatterLambertian(w)
    \/ \E w \in Workers : ParRandEnter(w)
    \/ \E w \in Workers : ParRandLeave(w)
    \/ \E w \in Workers : ParAccumulate(w)
    \/ \E w \in Workers : WorkerCombine(w)
    \/ RegionEnd

SpecParallel == InitParallel /\ [][NextParallel]_vars

-----------------------------------------------------------------------------
(* Properties of SpecHit                                                    *)

\* the intersection parameters of ry with the surface of s: the roots of
\* a t^2 + 2 b t + c = 0 when the discriminant is positive
SurfaceRoots(s, ry) ==
    LET oc == VSub(ry.orig, s.center)
        a == dot(ry.dir, ry.dir)
        b == dot(oc, ry.dir)
        c == FSub(dot(oc, oc), FMul(s.radius, s.radius))
        discriminant == FSub(FMul(b, b), FMul(a, c))
    IN  IF FGt(discriminant, 0)
        THEN { FDiv(FSub(FNeg(b), FSqrt(discriminant)), a),
               FDiv(FAdd(FNeg(b), FSqrt(discriminant)), a) }
        ELSE {}

\* the roots of s strictly inside (lo, hi)
ValidRoots(s, ry, lo, hi) == { t \in SurfaceRoots(s, ry) : FGt(t, lo) /\ FLt(t, hi) }

MinOf(S) == CHOOSE x \in S : \A y \in S : x <= y

AllValidRoots == UNION { ValidRoots(objects[i], r, t_min, t_max) : i \in 1..Len(objects) }

\* C1: hitable_list::hit reports a hit exactly when some primitive of the
\* list has an intersection parameter strictly inside (t_min, t_max), and
\* the t it returns is the smallest such parameter over the whole list.
Thm_C1_ClosestHit ==
    hpc = "done" =>
        /\ hit_anything <=> AllValidRoots # {}
        /\ hit_anything => rec.t = MinOf(AllValidRoots)

\* C1 witness: the list is done, and the primitive found first is not the
\* closest one.
Wit_C1_FirstFoundIsFarther ==
    /\ hpc = "done"
    /\ hit_anything
    /\ Len(objects) >= 2
    /\ ValidRoots(objects[1], r, t_min, t_max) # {}
    /\ MinOf(ValidRoots(objects[1], r, t_min, t_max)) > rec.t

\* C2: sphere::hit returns the smallest root strictly inside the range it
\* was given, a returned t is strictly inside that range, and it reports no
\* hit when there is no such root (discriminant <= 0 included).
Thm_C2_SphereNearestRoot ==
    last_call.made =>
        LET V == ValidRoots(last_call.object, r, t_min, last_call.t_max)
        IN  /\ last_call.hit <=> V # {}
            /\ last_call.hit =>
                   /\ last_call.rec.t = MinOf(V)
                   /\ t_min < last_call.rec.t
                   /\ last_call.rec.t < last_call.t_max

\* C2 witness: a call whose smaller root is out of range and whose larger
\* root is returned.
Wit_C2_LargerRootTaken ==
    /\ last_call.made
    /\ last_call.hit
    /\ Cardinality(SurfaceRoots(last_call.object, r)) = 2
    /\ last_call.rec.t # MinOf(SurfaceRoots(last_call.object, r))

Perms(n) == { f \in [1..n -> 1..n] : \A i, j \in 1..n : f[i] = f[j] => i = j }

Permuted(q, f) == [i \in 1..Len(q) |-> q[f[i]]]

\* the primitives whose own nearest valid hit is at t
HittingAt(t) ==
    { i \in 1..Len(objects) :
        LET h == SphereHit(objects[i], r, t_min, t_max, FreshRec)
        IN  h.hit /\ h.rec.t = t }

\* C7 as stated: every permutation of the list yields the same record.
Orig_C7_SameRecordAnyOrder ==
    hpc = "done" =>
        \A f \in Perms(Len(objects)) :
            LET o == HitListHit(Permuted(objects, f), r, t_min, t_max, FreshRec)
            IN  /\ o.hit = hit_anything
                /\ o.hit => o.rec = rec

\* C7 amended: every permutation yields the same answer, the same t and the
\* same point; the normal and the material are the same too when a single
\* primitive attains the smallest t, and otherwise the record is that of the
\* first primitive of the list among those that attain it.
Thm_C7_OrderIndependentUpToTies ==
    hpc = "done" =>
        /\ \A f \in Perms(Len(objects)) :
              LET o == HitListHit(Permuted(objects, f), r, t_min, t_max, FreshRec)
              IN  /\ o.hit = hit_anything
                  /\ o.hit => /\ o.rec.t = rec.t
                              /\ o.rec.p = rec.p
                              /\ Cardinality(HittingAt(rec.t)) = 1 => o.rec = rec
        /\ hit_anything =>
              rec = SphereHit(objects[MinOf(HittingAt(rec.t))], r, t_min, t_max, FreshRec).rec

\* C7 witness: a finished scan of several primitives that are hit, one of
\* them alone at the smallest t.
Wit_C7_SeveralHitUniqueClosest ==
    /\ hpc = "done"
    /\ hit_anything
    /\ Cardinality(HittingAt(rec.t)) = 1
    /\ \E i, j \in 1..Len(objects) :
          /\ i # j
          /\ SphereHit(objects[i], r, t_min, t_max, FreshRec).hit
          /\ SphereHit(objects[j], r, t_min, t_max, FreshRec).hit

\* the record one intersection test of primitive s writes for parameter t
RecordOf(s, ry, t) ==
    hit_record(t, at(ry, t), VDivS(VSub(at(ry, t), s.center), s.radius), s.mat)

\* C15: when hitable_list::hit returns true, the four fields of the
\* caller's record are those one primitive of the list writes for one of
\* its in-range intersection parameters, the closest hit of the list; as
\* long as no primitive has been hit the caller's record is the one passed
\* in; and an object->hit call that returns false changes neither temp_rec
\* nor the caller's record
Thm_C15_RecordFromOneTest ==
    /\ [](hpc = "done" /\ hit_anything =>
            /\ \E k \in 1..Len(objects) :
                  /\ rec.t \in ValidRoots(objects[k], r, t_min, t_max)
                  /\ rec = RecordOf(objects[k], r, rec.t)
            /\ rec.t = MinOf(AllValidRoots)
            /\ rec = temp_rec)
    /\ [](~hit_anything => rec \in CallerRecs /\ temp_rec = FreshRec)
    /\ [][ /\ ~hit_anything' => rec' = rec
           /\ (last_call' # last_call /\ ~last_call'.hit) =>
                 /\ rec' = rec
                 /\ temp_rec' = temp_rec
                 /\ last_call'.rec = temp_rec ]_vars

\* C15 witness: the list is done with a hit, after a primitive behind the
\* one that was hit had failed its test against the narrowed range
Wit_C15_HitThenFailedTest ==
    /\ hpc = "done"
    /\ hit_anything
    /\ last_call.made
    /\ ~last_call.hit
    /\ last_call.object.mat # rec.mat_ptr
    /\ SurfaceRoots(last_call.object, r) # {}

\* the list is done without a hit and the caller's record is the record of
\* an earlier query it passed in
Wit_C15_MissKeepsCallerRecord ==
    /\ hpc = "done"
    /\ ~hit_anything
    /\ Len(objects) >= 2
    /\ rec # FreshRec

-----------------------------------------------------------------------------
(* Properties of SpecColor                                                  *)

\* C3: a call of color with depth > 50 returns exactly black without a
\* world.hit or a scatter call, whatever the scene and the ray; a call with
\* depth <= 50 is not cut off: it queries the scene.
Thm_C3_DepthCutoff ==
    [][ /\ (cpc = "call" /\ depth > 50) =>
              /\ cpc' = "ret"
              /\ ending' = "cutoff"
              /\ retval' = <<0, 0, 0>>
              /\ hit_queries' = hit_queries
              /\ scatter_calls' = scatter_calls
        /\ (cpc = "call" /\ depth <= 50) =>
              /\ ending' # "cutoff"
              /\ hit_queries' = hit_queries + 1 ]_vars

\* C3 witness: the call at depth 51 that 51 nested scatterings lead to has
\* returned black.
Wit_C3_CutoffAtDepth51 ==
    /\ cpc = "ret"
    /\ ending = "cutoff"
    /\ depth = 51
    /\ Len(stack) = 51
    /\ retval = <<0, 0, 0>>
    /\ hit_queries = 51

\* C6 as stated: after a dielectric scatter in which refract() returned
\* false, the outgoing ray is the reflected ray from the hit point, whatever
\* rand() returned.
Orig_C6_TotalReflectionReflects ==
    (last_scatter.made /\ ~last_scatter.refracts) =>
        last_scatter.scattered = ray(last_scatter.p, last_scatter.reflected)

\* C10: a miss returns (1-t)*(1,1,1) + t*(0.5,0.7,1.0), t = 0.5*(y+1) for y
\* the vertical component of the unit direction; in the empty scene every
\* call with depth <= 50 is a miss, direction (0,1,0) gives (0.5,0.7,1.0)
\* and direction (0,-1,0) gives (1,1,1).
Thm_C10_BackgroundGradient ==
    [][ /\ (cpc = "call" /\ world = <<>> /\ depth <= 50) => ending' = "miss"
        /\ (cpc = "call" /\ cpc' = "ret" /\ ending' = "miss") =>
              LET t == FMul(500, FAdd(unit_vector(color_r.dir)[2], 1000))
              IN  /\ retval' = VAdd(VScale(<<1000, 1000, 1000>>, FSub(1000, t)),
                                    VScale(<<500, 700, 1000>>, t))
                  /\ color_r.dir = <<0, 1000, 0>> => retval' = <<500, 700, 1000>>
                  /\ color_r.dir = <<0, -1000, 0>> => retval' = <<1000, 1000, 1000>> ]_vars

\* C10 witness: the empty scene, a ray straight up, entered at depth 50,
\* has returned the sky colour.
Wit_C10_SkyAtDepth50 ==
    /\ world = <<>>
    /\ cpc = "ret"
    /\ ending = "miss"
    /\ depth = 50
    /\ color_r.dir = <<0, 1000, 0>>
    /\ retval = <<500, 700, 1000>>

\* the depth the outermost call of the path was entered with
StartDepth == IF stack = <<>> THEN depth ELSE stack[1].depth

\* the outermost call has returned
Returned == cpc = "ret" /\ stack = <<>>

\* C12: every call color(r, world, 0) returns; the path ends in exactly one
\* of miss, absorption and cutoff, decided once; the depth of each call is
\* the number of suspended calls below it and, when it is entered, the
\* number of scatter events so far; there are at most 51 scatter events and
\* at most 52 nested calls
Thm_C12_TerminatesWithinDepth ==
    /\ [](StartDepth = 0 =>
            /\ depth = Len(stack)
            /\ (cpc = "call" => depth = scatter_calls)
            /\ scatter_calls <= 51
            /\ Len(stack) + 1 <= 52
            /\ (cpc \in {"call", "sample"} => ending = "none")
            /\ (cpc = "ret" => ending \in {"miss", "absorbed", "cutoff"}))
    /\ [][ending # "none" => ending' = ending]_vars
    /\ <>Returned

\* C12 witness: a call entered at depth 0 has returned after 51 scatter
\* events and 52 nested calls, the innermost cut off
Wit_C12_ReturnedAfter51Scatters ==
    /\ Returned
    /\ depth = 0
    /\ ending = "cutoff"
    /\ scatter_calls = 51
    /\ hit_queries = 51

RECURSIVE NestedRange(_, _, _, _)
\* a_lo * (... * (a_hi * v)): the returns of the bounces lo..hi of atts
\* applied to v, bounce hi first. The range is split in two halves and the
\* returns of the upper half are applied before those of the lower half;
\* the order of the multiplications is that of the nested returns
NestedRange(atts, v, lo, hi) ==
    IF lo > hi THEN v
    ELSE IF lo = hi THEN VMulV(atts[lo], v)
    ELSE LET mid == (lo + hi) \div 2
         IN  CHOOSE c \in { NestedRange(atts, w, lo, mid) :
                              w \in { NestedRange(atts, v, mid + 1, hi) } } : TRUE

\* a1 * (a2 * (... * (an * v))): each bounce multiplies what the bounces
\* after it returned, as the nested returns of color() do
RecursiveColor(atts, v) == NestedRange(atts, v, 1, Len(atts))

RECURSIVE Accumulate(_, _, _, _)
\* the accumulator of a loop after the bounces lo..hi of atts, bounce lo
\* first: acc = acc * attenuation at each bounce
Accumulate(atts, acc, lo, hi) ==
    IF lo > hi THEN acc
    ELSE IF lo = hi THEN VMulV(acc, atts[lo])
    ELSE LET mid == (lo + hi) \div 2
         IN  CHOOSE c \in { Accumulate(atts, w, mid + 1, hi) :
                              w \in { Accumulate(atts, acc, lo, mid) } } : TRUE

\* the loop's result: the accumulated attenuation, from (1, 1, 1), times
\* the terminal value
IterativeColor(atts, v) ==
    VMulV(Accumulate(atts, <<1000, 1000, 1000>>, 1, Len(atts)), v)

\* C13 as stated: the colour the outermost call returns is the colour a
\* loop with an attenuation accumulator computes for the same path
Orig_C13_RecursiveEqualsIterative ==
    Returned => retval = IterativeColor(path, terminal)

\* C13: the colour the outermost call returns is the product of the
\* attenuations of the bounces and the terminal value taken from the
\* innermost bounce outwards, a1*(a2*(...(an*v))), where v is black after
\* an absorption or the cutoff; a loop with an accumulator gives the same
\* colour when the path has at most one bounce or ends in black
Thm_C13_ColorIsNestedProduct ==
    Returned =>
        /\ retval = RecursiveColor(path, terminal)
        /\ ending \in {"cutoff", "absorbed"} => terminal = <<0, 0, 0>>
        /\ (Len(path) <= 1 \/ terminal = <<0, 0, 0>>) =>
               retval = IterativeColor(path, terminal)

\* C13 witness: a path of two or more bounces that ended in the sky has
\* returned a colour that is not black
Wit_C13_SeveralBouncesThenSky ==
    /\ Returned
    /\ Len(path) >= 2
    /\ ending = "miss"
    /\ retval # <<0, 0, 0>>
    /\ \A c \in 1..3 : ~IsNaN(retval[c])
    /\ \A k \in 1..Len(path) : path[k] # <<1000, 1000, 1000>>

\* the dot product of the hit normal n with the mirror reflection
\* v - 2(v.n)n of the unit direction v of the incoming ray
MirrorDot(ry, n) ==
    dot(VSub(unit_vector(ry.dir), VScale(n, FMul(2000, dot(unit_vector(ry.dir), n)))), n)

\* a float that is <= 0 (false for a not-a-number)
NotPositive(x) == ~IsNaN(x) /\ x <= 0

\* the step is a successful scatter with attenuation a: color() makes the
\* recursive call and keeps a for the product
ScatteredWith(a) ==
    /\ cpc' = "call"
    /\ ending' = "none"
    /\ stack' = Append(stack, [r |-> color_r, depth |-> depth, attenuation |-> a])

\* C14: a path is absorbed only at a metal, and a metal that is hit absorbs
\* exactly when the mirror reflection of the unit incoming direction has a
\* dot product <= 0 with the hit normal, and otherwise scatters with its
\* albedo; a dielectric that is hit scatters with attenuation (1,1,1)
\* whatever rand() returns; a lambertian that is hit scatters with its albedo
\* whatever point random_in_unit_sphere returns
Thm_C14_OnlyMetalAbsorbs ==
    [][ /\ ending' = "absorbed" /\ ending = "none" =>
              /\ color_rec'.mat_ptr.kind = "metal"
              /\ NotPositive(MirrorDot(color_r, color_rec'.normal))
        /\ (cpc = "call" /\ depth <= 50) =>
              \A h \in {WorldHit} :
                  /\ (h.hit /\ h.rec.mat_ptr.kind = "metal") =>
                        IF NotPositive(MirrorDot(color_r, h.rec.normal))
                        THEN ending' = "absorbed" /\ retval' = <<0, 0, 0>>
                        ELSE ScatteredWith(h.rec.mat_ptr.albedo)
                  /\ (h.hit /\ h.rec.mat_ptr.kind = "dielectric") =>
                        ScatteredWith(<<1000, 1000, 1000>>)
                  /\ (h.hit /\ h.rec.mat_ptr.kind = "lambertian") =>
                        cpc' = "sample" /\ ending' = "none"
        /\ cpc = "sample" =>
              \/ cpc' = "sample" /\ stack' = stack /\ ending' = "none"
              \/ ScatteredWith(color_rec.mat_ptr.albedo) ]_vars

\* C14 witness: a ray that starts inside a metal sphere was absorbed at its
\* first hit, the reflection pointing into the surface
Wit_C14_AbsorbedAtMetal ==
    /\ cpc = "ret"
    /\ ending = "absorbed"
    /\ color_rec.mat_ptr.kind = "metal"
    /\ MirrorDot(color_r, color_rec.normal) < 0
    /\ scatter_calls = 1
    /\ retval = <<0, 0, 0>>

-----------------------------------------------------------------------------
(* Properties of main                                                      *)

\* the pixel whose line is the k-th line after the header, in row-major
\* order from the topmost scanline, left to right
RowMajor(k) == << (k - 1) % nx, ny - 1 - ((k - 1) \div nx) >>

\* C8: the header is in the file before any pixel line; the k-th pixel
\* line belongs to the k-th pixel in row-major order from the topmost
\* scanline (j = ny-1 down to 0), left to right (i = 0 to nx-1); when the
\* file is closed it holds exactly nx*ny pixel lines; and a line is written
\* only when every sample of its pixel has been run and every thread's
\* private sum has been added to col
Thm_C8_OutputOrder ==
    /\ [](out_pixels # <<>> => header_written)
    /\ [](\A k \in 1..Len(out_pixels) : out_pixels[k] = RowMajor(k))
    /\ [](mpc = "closed" => Len(out_pixels) = nx * ny)
    /\ [][out_pixels' # out_pixels =>
             /\ header_written
             /\ mpc = "average"
             /\ todo = {}
             /\ combined = Workers
             /\ out_pixels' = Append(out_pixels, <<pixel_i, pixel_j>>)]_vars

Wit_C8_FileComplete ==
    /\ mpc = "closed"
    /\ Len(out_pixels) = nx * ny
    /\ out_pixels[1] = <<0, ny - 1>>
    /\ out_pixels[nx * ny] = <<nx - 1, 0>>

\* the average of the samples of the pixel being written has no negative
\* and no not-a-number channel
AverageNonNegative ==
    \A c \in 1..3 : FGe(VDivAssign(col, Real(ns))[c], 0)

\* C9: when a pixel line is written for a non-negative sample average, each
\* of its three integers is in 0..255
Thm_C9_ChannelRange ==
    [][(mpc = "average" /\ out_pixels' # out_pixels /\ AverageNonNegative)
          => \A c \in 1..3 : last_line'[c] \in 0..255]_vars

\* a line was written whose blue channel was cut to 0.999 and became 255
Wit_C9_UpperClampReached ==
    /\ out_pixels # <<>>
    /\ mpc # "parallel" /\ mpc # "average"
    /\ col[3] = FMul(999, Real(256))
    /\ last_line[3] = 255
    /\ col[1] < col[3]

RECURSIVE SampleSum(_)
\* the sum of the colours of a set of finished iterations
SampleSum(S) ==
    IF S = {} THEN <<0, 0, 0>>
    ELSE LET e == CHOOSE x \in S : TRUE
         IN  VAdd(e.c, SampleSum(S \ {e}))

\* C11: when the parallel loop of a pixel is over, every iteration
\* 0..ns-1 of that pixel has run exactly once, and the col that is about to
\* be averaged is the sum of the colours of those ns iterations, whichever
\* threads ran them and in whatever order the private sums were combined
Thm_C11_AccumulatorIsSampleSum ==
    mpc = "average" =>
        /\ Cardinality(samples) = ns
        /\ { e.s : e \in samples } = 0..(ns - 1)
        /\ col = SampleSum(samples)

\* a pixel, not the first, whose iterations were shared by two threads,
\* with a colour that is not black
Wit_C11_SamplesSharedByThreads ==
    /\ mpc = "average"
    /\ out_pixels # <<>>
    /\ \E e1, e2 \in samples : e1.w # e2.w /\ e1.c # Black /\ e1.c # e2.c
    /\ col # Black

-----------------------------------------------------------------------------
(* Properties of the random draws                                          *)

\* C4: during the parallel sample loop no two threads are inside the same
\* random generator at once: at most one thread is inside random_float's
\* static generator and at most one is inside rand()
Orig_C4_NoConcurrentGeneratorUse ==
    /\ Cardinality(gen_users) <= 1
    /\ Cardinality(rand_users) <= 1

\* C5: every call random_float(min, max) returns a value in [min, max]
Orig_C5_DrawWithinCallRange ==
    \A k \in 1..Len(rf_calls) :
        /\ FGe(rf_calls[k].value, rf_calls[k].min)
        /\ ~FGt(rf_calls[k].value, rf_calls[k].max)

====
